---------------------------- MODULE Spec2Model ----------------------------
(***************************************************************************)
(* State-machine model of src/main.py (AppStoreMonitor): the scheduler     *)
(* loop, one sweep of check_apps with its probes, confirmation votes,      *)
(* reconciliation, store write and notification fan-out, and the /start    *)
(* registration command that runs at the sweep's await points.             *)
(***************************************************************************)
EXTENDS Integers, Sequences, FiniteSets, TLC

(***************************************************************************)
(* Program constants                                                       *)
(***************************************************************************)
CONFIRMATION_CHECKS == 5

RETRY_ATTEMPTS == 3

(***************************************************************************)
(* Bounds of the model                                                     *)
(***************************************************************************)
\* the number of chats that can issue /start
NumChats == 2

\* chat ids (update.effective_chat.id is an int)
Chats == 1..NumChats

\* the apps sheet below the header row: columns A (app_id), B (name) and
\* E (comma-separated region list); the region list of Y is empty
AppRows == << [app_id |-> "X", app_name |-> "App X", geos |-> "US,DE"],
              [app_id |-> "Y", app_name |-> "App Y", geos |-> ""] >>

AppIds == {AppRows[i].app_id : i \in 1..Len(AppRows)}

(***************************************************************************)
(* Conversions between Python values and sheet cells                       *)
(***************************************************************************)
\* str(chat_id), line 115 and 119
StrOfInt(n) == CASE n = 1 -> "1" [] n = 2 -> "2" [] n = 3 -> "3" [] OTHER -> "?"

\* int(row[0]), line 140
IntOfStr(s) == CASE s = "1" -> 1 [] s = "2" -> 2 [] s = "3" -> 3 [] OTHER -> 0

ChatCells == {StrOfInt(c) : c \in Chats}

\* [geo.strip() for geo in row[4].split(',')], line 248: splitting the empty
\* string gives one empty region
split_geos(cell) ==
    CASE cell = "US,DE" -> <<"US", "DE">>
      [] cell = "US"    -> <<"US">>
      [] cell = "DE"    -> <<"DE">>
      [] OTHER          -> <<"">>

\* len(row) of a row as values().get returns it, lines 228-233: the cells up
\* to the last one that is not empty (columns A-D of the rows here are not)
RowLen(r) == IF r.custom # "" THEN 6 ELSE IF r.geos # "" THEN 5 ELSE 4

\* str(is_available).lower(), line 274
CellOfBool(b) == IF b THEN "true" ELSE "false"

\* row[2].lower() == 'true', line 246
BoolOfCell(s) == s = "true"

(***************************************************************************)
(* check_app_availability: one call as a function of the HTTP outcomes of  *)
(* its attempts                                                            *)
(***************************************************************************)
StatusCodes == {200, 404, 403, 499, 500, 503}

HttpOutcomes == [kind : {"response"}, code : StatusCodes]
                  \cup [kind : {"timeout", "network", "other_exception"}, code : {0}]

HttpRuns == [1..RETRY_ATTEMPTS -> HttpOutcomes]

\* variant: every code from 400 up is taken for a server error
Classify_mut(code) ==
    IF code = 404 THEN "unavailable"
    ELSE IF code = 200 THEN "available"
    ELSE IF code >= 400 THEN "transient"
    ELSE "unavailable"

\* the if/elif chain on response.status_code, lines 165-181
Classify(code) ==
    IF code = 404 THEN "unavailable"
    ELSE IF code = 200 THEN "available"
    ELSE IF code >= 500 THEN "transient"
    ELSE "unavailable"

\* variant: the test of the retry guard against the number of attempts
MayRetry_mut(attempt) == attempt < RETRY_ATTEMPTS

\* if attempt < 2, lines 174, 185 and 191
MayRetry(attempt) == attempt < 2

\* a call's return after `attempt` requests and `sleeps` calls of time.sleep(5)
Returned(value, attempt, sleeps) ==
    [raised |-> FALSE, value |-> value, attempts |-> attempt, sleeps |-> sleeps]

\* the body of the for loop, lines 150-194, from attempt number `attempt`, and
\* the return after the loop, lines 196-198
RECURSIVE Attempt(_, _, _)
Attempt(outs, attempt, sleeps) ==
    IF attempt >= RETRY_ATTEMPTS
    THEN Returned(FALSE, attempt, sleeps)
    ELSE LET o     == outs[attempt + 1]
             retry == IF MayRetry(attempt)
                      THEN Attempt(outs, attempt + 1, sleeps + 1)
                      ELSE Returned(FALSE, attempt + 1, sleeps)
             kind  == IF o.kind = "response" THEN Classify(o.code) ELSE o.kind
         IN  CASE kind = "unavailable" -> Returned(FALSE, attempt + 1, sleeps)
               [] kind = "available"   -> Returned(TRUE, attempt + 1, sleeps)
               [] kind = "transient"   -> retry
               [] kind = "timeout"     -> retry
               [] kind = "network"     -> retry
               [] OTHER -> [raised |-> TRUE, value |-> FALSE,
                            attempts |-> attempt + 1, sleeps |-> sleeps]

check_app_availability(outs) == Attempt(outs, 0, 0)

\* what a call can do: return a boolean, or let an exception that is neither
\* requests.Timeout nor requests.RequestException escape
ProbeOutcomes == {[raised |-> check_app_availability(outs).raised,
                   value  |-> check_app_availability(outs).value] : outs \in HttpRuns}

ProbeValues == {r.value : r \in {q \in ProbeOutcomes : ~q.raised}}

(***************************************************************************)
(* confirm_status_change's decision, lines 215-217                         *)
(***************************************************************************)
confirmation_threshold == (CONFIRMATION_CHECKS + 1) \div 2

\* variant: a strict majority test against the threshold
is_confirmed_mut(count) == count > confirmation_threshold

\* line 217
is_confirmed(count) == count >= confirmation_threshold

(***************************************************************************)
(* check_apps' recomputation of the verdict, lines 407-420                 *)
(***************************************************************************)
\* next((c for c in confirmed_changes if c['geo'] == geo), None)
RECURSIVE FirstFor(_, _)
FirstFor(changes, geo) ==
    IF changes = <<>> THEN <<>>
    ELSE IF Head(changes).geo = geo THEN <<Head(changes)>>
    ELSE FirstFor(Tail(changes), geo)

\* variant: a region whose flip was not confirmed counts by its raw probe
GeoIsFinalAvailable_mut(changes, geo, current_status, raw) ==
    LET c == FirstFor(changes, geo)
    IN  IF c # <<>> THEN c[1].new_status ELSE raw[geo]

\* lines 410-418: a region counts by its confirmed new status, or else by the
\* status read from the sheet
GeoIsFinalAvailable(changes, geo, current_status, raw) ==
    LET c == FirstFor(changes, geo)
    IN  IF c # <<>> THEN c[1].new_status ELSE current_status

RECURSIVE final_available_geos(_, _, _, _)
final_available_geos(geos, changes, current_status, raw) ==
    IF geos = <<>> THEN <<>>
    ELSE (IF GeoIsFinalAvailable(changes, Head(geos), current_status, raw)
          THEN <<Head(geos)>> ELSE <<>>)
         \o final_available_geos(Tail(geos), changes, current_status, raw)

(***************************************************************************)
(* send_telegram_message's classification of a failed delivery, line 304   *)
(***************************************************************************)
SendOutcomes == {"ok", "bot was blocked by the user", "chat not found", "timed out"}

IsGone(res) == res \in {"bot was blocked by the user", "chat not found"}


(***************************************************************************)
(* State                                                                   *)
(***************************************************************************)
VARIABLES
    \* external stores
    sheet,              \* apps sheet rows below the header (columns A-F)
    chats_sheet,        \* chats sheet: number of rows per chat-id cell
    \* the storefront (environment)
    storefront,         \* availability each (app, region) answers with
    flaky,              \* TRUE: a probe may answer anything
    \* AppStoreMonitor
    active_chats,       \* self.active_chats
    pc,                 \* position of run() / check_apps()
    \* locals of check_apps
    apps_data,          \* result of read_sheet_data()
    row,                \* position in apps_data (row_index = row + 1)
    gi,                 \* position in geos of the probing loop
    new_status_by_geo,
    status_changes,
    ci,                 \* position in status_changes of the confirming loop
    check_num,          \* locals of confirm_status_change
    confirmed_count,
    confirmed_changes,
    \* locals of send_telegram_message
    pending,            \* chats of list(self.active_chats) not yet attempted
    chats_to_remove,
    \* observations of the app being processed (cleared when the next begins)
    samples,            \* results of the latest confirmation's probes
    confirm_log,        \* calls of confirm_status_change and their results
    writes,             \* calls of update_sheet
    events,             \* notifications handed to the channels
    fan_snapshot,       \* list(self.active_chats) of the fan-out
    sent,               \* per chat, the outcomes of the bot.send_message attempts
    discord_sent,       \* number of send_discord_message calls
    probe_calls,        \* number of check_app_availability calls
    interval_sleeps,    \* number of asyncio.sleep(CONFIRMATION_INTERVAL) calls
    \* history
    gone_removed,       \* chats discarded as gone, with no /start since
    restarted,          \* chats marked for removal in the running fan-out
                        \* whose /start was handled since
    \* one call of check_app_availability taken by itself
    http_outs,          \* what requests.get does at each attempt, or <<>>
    probe_result        \* <<>>, or the call's outcome

vars == <<sheet, chats_sheet, storefront, flaky, active_chats, pc, apps_data,
          row, gi, new_status_by_geo, status_changes, ci, check_num,
          confirmed_count, confirmed_changes, pending, chats_to_remove,
          samples, confirm_log, writes, events, fan_snapshot, sent,
          discord_sent, probe_calls, interval_sleeps, gone_removed, restarted,
          http_outs,
          probe_result>>

storeVars == <<sheet, chats_sheet>>

envVars == <<storefront, flaky>>

probeVars == <<gi, new_status_by_geo, status_changes>>

confirmVars == <<ci, check_num, confirmed_count, confirmed_changes>>

fanVars == <<pending, chats_to_remove>>

logVars == <<samples, confirm_log, writes, events, fan_snapshot, sent, discord_sent>>

countVars == <<probe_calls, interval_sleeps>>

histVars == <<gone_removed, restarted>>

callVars == <<http_outs, probe_result>>

AppGeoPairs ==
    UNION {{<<AppRows[i].app_id, split_geos(AppRows[i].geos)[j]>> :
               j \in 1..Len(split_geos(AppRows[i].geos))} : i \in 1..Len(AppRows)}

\* column F, a custom field: empty, or filled in a row whose region list is
\* empty
CustomCells(r) == IF r.geos = "" THEN {"", "note"} ELSE {""}

SheetInits ==
    {[i \in 1..Len(AppRows) |->
         [app_id |-> AppRows[i].app_id, app_name |-> AppRows[i].app_name,
          is_available |-> CellOfBool(b[i]), last_update |-> "t0",
          geos |-> AppRows[i].geos, custom |-> c[i]]] :
       b \in [1..Len(AppRows) -> BOOLEAN],
       c \in {f \in [1..Len(AppRows) -> {"", "note"}] :
                 \A i \in 1..Len(AppRows) : f[i] \in CustomCells(AppRows[i])}}

NoneSent == [c \in Chats |-> <<>>]

InitCommon ==
    /\ sheet \in SheetInits
    /\ chats_sheet \in [ChatCells -> {0, 1}]
    /\ active_chats = {}
    /\ pc = "init"
    /\ apps_data = <<>>
    /\ row = 1
    /\ gi = 1
    /\ new_status_by_geo = <<>>
    /\ status_changes = <<>>
    /\ ci = 1
    /\ check_num = 0
    /\ confirmed_count = 0
    /\ confirmed_changes = <<>>
    /\ pending = {}
    /\ chats_to_remove = <<>>
    /\ samples = <<>>
    /\ confirm_log = <<>>
    /\ writes = <<>>
    /\ events = <<>>
    /\ fan_snapshot = {}
    /\ sent = NoneSent
    /\ discord_sent = 0
    /\ probe_calls = 0
    /\ interval_sleeps = 0
    /\ gone_removed = {}
    /\ restarted = {}

\* no call of check_app_availability is looked at by itself
NoCall == http_outs = <<>> /\ probe_result = <<>>

\* probes answer anything
Init ==
    /\ InitCommon
    /\ NoCall
    /\ flaky = TRUE
    /\ storefront = [p \in AppGeoPairs |-> FALSE]

\* the monitor at start-up and one call of check_app_availability, whose
\* requests do whatever the network can do
InitProber ==
    /\ InitCommon
    /\ flaky = TRUE
    /\ storefront = [p \in AppGeoPairs |-> FALSE]
    /\ http_outs \in HttpRuns
    /\ probe_result = <<>>

\* every probe of a region answers the same in all sweeps
InitStable ==
    /\ InitCommon
    /\ NoCall
    /\ flaky = FALSE
    /\ storefront \in [AppGeoPairs -> BOOLEAN]

(***************************************************************************)
(* run(): start-up                                                         *)
(***************************************************************************)
\* {int(row[0]) for row in values}
LoadedChats == {IntOfStr(s) : s \in {t \in ChatCells : chats_sheet[t] > 0}}

\* lines 462-474: load_active_chats, whose failure is logged and leaves the set
Startup ==
    /\ pc = "init"
    /\ \E ok \in BOOLEAN :
          active_chats' = IF ok THEN LoadedChats ELSE active_chats
    /\ pc' = "loaded"
    /\ UNCHANGED <<storeVars, envVars, callVars, apps_data, row, probeVars, confirmVars,
                   fanVars, logVars, histVars, countVars>>

(***************************************************************************)
(* start_command, running while run() is suspended at an await             *)
(***************************************************************************)
AtAwait == pc \in {"init", "idle", "backoff", "confirm", "telegram"}

\* variant: the row is appended without looking for one that holds the id
save_chat_mut(rows, chat_id, ok) ==
    IF ok
    THEN [rows EXCEPT ![StrOfInt(chat_id)] = @ + 1]
    ELSE rows

\* save_chat, lines 105-129: append a row unless one holds str(chat_id); a
\* failure is only logged
save_chat(rows, chat_id, ok) ==
    IF ok /\ rows[StrOfInt(chat_id)] = 0
    THEN [rows EXCEPT ![StrOfInt(chat_id)] = @ + 1]
    ELSE rows

start_command(chat_id) ==
    /\ AtAwait
    /\ active_chats' = active_chats \cup {chat_id}
    /\ \E ok \in BOOLEAN : chats_sheet' = save_chat(chats_sheet, chat_id, ok)
    /\ gone_removed' = gone_removed \ {chat_id}
    /\ restarted' = IF chat_id \in {chats_to_remove[i] : i \in DOMAIN chats_to_remove}
                    THEN restarted \cup {chat_id} ELSE restarted
    /\ UNCHANGED <<sheet, envVars, callVars, pc, apps_data, row, probeVars, confirmVars,
                   fanVars, logVars, countVars>>

(***************************************************************************)
(* check_apps(): one sweep                                                 *)
(***************************************************************************)
\* read_sheet_data, lines 224-268: the rows parsed, or [] when the read fails
read_sheet_data(ok) ==
    IF ok
    THEN [i \in 1..Len(sheet) |->
             [app_id |-> sheet[i].app_id,
              is_available |-> BoolOfCell(sheet[i].is_available),
              geos |-> IF RowLen(sheet[i]) > 4 THEN split_geos(sheet[i].geos)
                       ELSE <<>>]]
    ELSE <<>>

\* variant: every sweep reloads the active chats from the chats sheet
BeginSweep_mut ==
    /\ pc \in {"loaded", "idle", "backoff"}
    /\ \E ok \in BOOLEAN : apps_data' = read_sheet_data(ok)
    /\ active_chats' = LoadedChats
    /\ row' = 1
    /\ pc' = "app"
    /\ UNCHANGED <<storeVars, envVars, callVars, probeVars, confirmVars, fanVars, logVars,
                   histVars, countVars>>

\* run() line 479 and check_apps line 351: a sweep starts right after
\* start-up, after the CHECK_INTERVAL sleep, or after the 60 s sleep that
\* follows a failed sweep
BeginSweep ==
    /\ pc \in {"loaded", "idle", "backoff"}
    /\ \E ok \in BOOLEAN : apps_data' = read_sheet_data(ok)
    /\ row' = 1
    /\ pc' = "app"
    /\ UNCHANGED <<storeVars, envVars, callVars, active_chats, probeVars, confirmVars,
                   fanVars, logVars, histVars, countVars>>

\* the locals of check_apps and the observations of a row, as a row starts
\* with them (lines 360-363) and as they are when check_apps is not running
FreshRow ==
    /\ gi' = 1
    /\ new_status_by_geo' = <<>>
    /\ status_changes' = <<>>
    /\ ci' = 1
    /\ check_num' = 0
    /\ confirmed_count' = 0
    /\ confirmed_changes' = <<>>
    /\ pending' = {}
    /\ chats_to_remove' = <<>>
    /\ samples' = <<>>
    /\ confirm_log' = <<>>
    /\ writes' = <<>>
    /\ events' = <<>>
    /\ fan_snapshot' = {}
    /\ sent' = NoneSent
    /\ discord_sent' = 0
    /\ probe_calls' = 0
    /\ interval_sleeps' = 0

\* lines 352-363: the next row's locals
NextApp ==
    /\ pc = "app"
    /\ row <= Len(apps_data)
    /\ FreshRow
    /\ pc' = "probe"
    /\ UNCHANGED <<storeVars, envVars, callVars, active_chats, apps_data, row, histVars>>

\* the for loop of line 352 is exhausted; run() line 480 sleeps CHECK_INTERVAL
EndSweep ==
    /\ pc = "app"
    /\ row > Len(apps_data)
    /\ pc' = "idle"
    /\ apps_data' = <<>>
    /\ row' = 1
    /\ FreshRow
    /\ UNCHANGED <<storeVars, envVars, callVars, active_chats, histVars>>

\* the answers the storefront can give to a probe of (app, geo)
Answers(app_id, geo) ==
    {v \in ProbeValues : flaky \/ v = storefront[<<app_id, geo>>]}

\* variant: every available region raises a candidate
IsCandidate_mut(is_available, current_status) == is_available

\* line 375: a raw probe that differs from the sheet's status raises a candidate
IsCandidate(is_available, current_status) == is_available # current_status

\* lines 365-380: probe one region
Probe ==
    /\ pc = "probe"
    /\ gi <= Len(apps_data[row].geos)
    /\ LET app == apps_data[row]
           geo == app.geos[gi]
       IN  \E is_available \in Answers(app.app_id, geo) :
              /\ new_status_by_geo' = (geo :> is_available) @@ new_status_by_geo
              /\ status_changes' =
                    IF IsCandidate(is_available, app.is_available)
                    THEN Append(status_changes,
                                [geo |-> geo, old_status |-> app.is_available,
                                 new_status |-> is_available])
                    ELSE status_changes
    /\ gi' = gi + 1
    /\ probe_calls' = probe_calls + 1
    /\ UNCHANGED <<storeVars, envVars, callVars, active_chats, pc, apps_data, row,
                   confirmVars, fanVars, logVars, histVars, interval_sleeps>>

\* line 383: confirm the candidates, if any; the first confirmation sleeps
AfterProbes ==
    /\ pc = "probe"
    /\ gi > Len(apps_data[row].geos)
    /\ IF status_changes # <<>>
       THEN pc' = "confirm" /\ row' = row
       ELSE pc' = "app" /\ row' = row + 1
    /\ UNCHANGED <<storeVars, envVars, callVars, active_chats, apps_data, probeVars,
                   confirmVars, fanVars, logVars, histVars, countVars>>

\* variant: the loop ends as soon as the vote is decided
MoreChecks_mut(done, count) ==
    done < CONFIRMATION_CHECKS /\ count < confirmation_threshold

\* for check_num in range(CONFIRMATION_CHECKS), line 204: whether another
\* round follows `done` rounds
MoreChecks(done, count) == done < CONFIRMATION_CHECKS

\* lines 206-213: after the sleep, one confirmation probe
ConfirmCheck ==
    /\ pc = "confirm"
    /\ LET app      == apps_data[row]
           change   == status_changes[ci]
       IN  \E current_status \in Answers(app.app_id, change.geo) :
              /\ confirmed_count' =
                    IF current_status = change.new_status
                    THEN confirmed_count + 1 ELSE confirmed_count
              /\ samples' = IF check_num = 0 THEN <<current_status>>
                            ELSE Append(samples, current_status)
    /\ check_num' = check_num + 1
    /\ interval_sleeps' = interval_sleeps + 1
    /\ probe_calls' = probe_calls + 1
    /\ pc' = IF MoreChecks(check_num', confirmed_count')
             THEN "confirm" ELSE "confirm_return"
    /\ UNCHANGED <<storeVars, envVars, callVars, active_chats, apps_data, row, probeVars,
                   ci, confirmed_changes, fanVars, confirm_log, writes, events,
                   fan_snapshot, sent, discord_sent, histVars>>

\* variant: a candidate that was not confirmed is confirmed again at once
NextChange_mut(i, ok) == IF ok THEN i + 1 ELSE i

\* for change in status_changes, line 389: each candidate is taken once,
\* whatever its confirmation returned
NextChange(i, ok) == i + 1

\* lines 215-222 and 396-402: the vote, and the next candidate's confirmation
ConfirmReturn ==
    /\ pc = "confirm_return"
    /\ LET change == status_changes[ci]
           ok     == is_confirmed(confirmed_count)
       IN  /\ confirmed_changes' =
                 IF ok THEN Append(confirmed_changes, change) ELSE confirmed_changes
           /\ confirm_log' = Append(confirm_log,
                 [geo |-> change.geo, expected_status |-> change.new_status,
                  result |-> ok])
           /\ ci' = NextChange(ci, ok)
    /\ check_num' = 0
    /\ confirmed_count' = 0
    /\ pc' = IF ci' <= Len(status_changes) THEN "confirm" ELSE "reconcile"
    /\ UNCHANGED <<storeVars, envVars, callVars, active_chats, apps_data, row, probeVars,
                   fanVars, samples, writes, events, fan_snapshot, sent,
                   discord_sent, histVars, countVars>>

\* variant: the exception is not caught and ends run()
OnSweepException_mut == "terminated"

\* variant: the failed sweep is followed by the CHECK_INTERVAL sleep
OnSweepException_idle == "idle"

\* run() lines 481-483: the exception is logged and run() sleeps 60 s
OnSweepException == "backoff"

\* an exception of a probe that check_app_availability does not catch leaves
\* check_apps and reaches the except clause of run()
SweepFatal ==
    /\ \/ pc = "probe" /\ gi <= Len(apps_data[row].geos)
       \/ pc = "confirm"
    /\ \E r \in ProbeOutcomes : r.raised
    /\ pc' = OnSweepException
    /\ apps_data' = <<>>
    /\ row' = 1
    /\ FreshRow
    /\ UNCHANGED <<storeVars, envVars, callVars, active_chats, histVars>>

\* variant: the header row is not counted
update_sheet_mut(rows, row_index, is_available, ok) ==
    IF ok /\ row_index \in DOMAIN rows
    THEN [rows EXCEPT ![row_index].is_available = CellOfBool(is_available),
                      ![row_index].last_update = "now"]
    ELSE rows

\* update_sheet, lines 270-285: cells C and D of sheet row row_index, which is
\* the row below the header numbered row_index - 1; a failure is only logged
update_sheet(rows, row_index, is_available, ok) ==
    IF ok /\ row_index - 1 \in DOMAIN rows
    THEN [rows EXCEPT ![row_index - 1].is_available = CellOfBool(is_available),
                      ![row_index - 1].last_update = "now"]
    ELSE rows

\* variant: every row that raised a candidate is written and notified
ShouldNotify_mut(changes, final_status, current_status) == TRUE

\* line 405: the store is written and the channels are notified when some
\* change was confirmed
ShouldNotify(changes, final_status, current_status) == changes # <<>>

\* variant: a failed write escapes update_sheet and fails the sweep
AfterUpdateSheet_mut(ok, next_pc) == IF ok THEN next_pc ELSE "backoff"

\* lines 284-285: update_sheet logs its failure and returns, as it returns
\* after a write
AfterUpdateSheet(ok, next_pc) == next_pc

\* variant: the rows are numbered from 1
RowIndex_mut(k) == k

\* enumerate(apps_data, start=2), line 352: the sheet row of the k-th app read
RowIndex(k) == k + 1

\* lines 405-454 and 289-294: recompute the verdict, write it, build the
\* message and start the Telegram fan-out over a copy of the active chats
Reconcile ==
    /\ pc = "reconcile"
    /\ samples' = <<>>
    /\ LET app          == apps_data[row]
           row_index    == RowIndex(row)
           final_geos   == final_available_geos(app.geos, confirmed_changes,
                                                app.is_available, new_status_by_geo)
           final_status == Len(final_geos) > 0
       IN  IF ShouldNotify(confirmed_changes, final_status, app.is_available)
           THEN /\ \E ok \in BOOLEAN :
                      /\ sheet' = update_sheet(sheet, row_index, final_status, ok)
                      /\ writes' = Append(writes,
                            [row_index |-> row_index, is_available |-> final_status,
                             ok |-> ok])
                      /\ pc' = AfterUpdateSheet(ok,
                                  IF active_chats = {} THEN "discord" ELSE "telegram")
                /\ events' = Append(events,
                      [app_id |-> app.app_id, final_status |-> final_status,
                       changes |-> confirmed_changes, available |-> final_geos])
                /\ fan_snapshot' = active_chats
                /\ pending' = active_chats
                /\ chats_to_remove' = <<>>
                /\ row' = row
           ELSE /\ pc' = "app"
                /\ row' = row + 1
                /\ UNCHANGED <<sheet, writes, events, fan_snapshot, pending,
                               chats_to_remove>>
    /\ UNCHANGED <<chats_sheet, envVars, callVars, active_chats, apps_data,
                   probeVars, confirmVars, confirm_log, sent, discord_sent,
                   histVars, countVars>>

\* lines 308-309: discard the chats marked for removal
RemoveChats(active, to_remove) ==
    active \ {to_remove[i] : i \in DOMAIN to_remove}

\* variant: every failed delivery marks the chat
MarkForRemoval_mut(to_remove, chat_id, res) ==
    IF res # "ok" THEN Append(to_remove, chat_id) ELSE to_remove

\* lines 304-305: an exception whose text says the chat is gone marks it
MarkForRemoval(to_remove, chat_id, res) ==
    IF IsGone(res) THEN Append(to_remove, chat_id) ELSE to_remove

\* variant: a failed delivery ends the loop
StillPending_mut(left, chat_id, res) ==
    IF res = "ok" THEN left \ {chat_id} ELSE {}

\* lines 294-302: the chats still to be attempted once the attempt to chat_id
\* has ended with res; the except clause keeps the loop going
StillPending(left, chat_id, res) == left \ {chat_id}

\* lines 294-309: the awaited send_message to one chat of the copy ends; after
\* the last one the marked chats are discarded
Deliver ==
    /\ pc = "telegram"
    /\ \E chat_id \in pending, res \in SendOutcomes :
          LET marked == MarkForRemoval(chats_to_remove, chat_id, res)
              left   == StillPending(pending, chat_id, res)
          IN  /\ sent' = [sent EXCEPT ![chat_id] = Append(@, res)]
              /\ pending' = left
              /\ chats_to_remove' = marked
              /\ IF left = {}
                 THEN /\ active_chats' = RemoveChats(active_chats, marked)
                      /\ gone_removed' = gone_removed \cup
                            (active_chats \ RemoveChats(active_chats, marked))
                      /\ pc' = "discord"
                 ELSE UNCHANGED <<active_chats, gone_removed, pc>>
    /\ UNCHANGED restarted
    /\ UNCHANGED <<storeVars, envVars, callVars, apps_data, row, probeVars, confirmVars,
                   samples, confirm_log, writes, events, fan_snapshot,
                   discord_sent, countVars>>

DiscordOutcomes == {"not configured", "ok", "error"}

\* line 455 and lines 311-345: the webhook, whose failure is only logged; the
\* row is done
Discord ==
    /\ pc = "discord"
    /\ \E res \in DiscordOutcomes : discord_sent' = discord_sent + 1
    /\ pc' = "app"
    /\ row' = row + 1
    /\ restarted' = {}
    /\ UNCHANGED <<storeVars, envVars, callVars, active_chats, apps_data, probeVars,
                   confirmVars, fanVars, samples, confirm_log, writes, events,
                   fan_snapshot, sent, gone_removed, countVars>>

(***************************************************************************)
(* Specifications                                                          *)
(***************************************************************************)
Next ==
    \/ Startup
    \/ \E chat_id \in Chats : start_command(chat_id)
    \/ BeginSweep
    \/ NextApp
    \/ Probe
    \/ AfterProbes
    \/ ConfirmCheck
    \/ ConfirmReturn
    \/ SweepFatal
    \/ Reconcile
    \/ Deliver
    \/ Discord
    \/ EndSweep

\* probes answer anything
Spec == Init /\ [][Next]_vars

\* the steps of run() itself: start-up, and check_apps and the sleeps of the
\* while loop
RunStep ==
    \/ Startup
    \/ BeginSweep
    \/ NextApp
    \/ Probe
    \/ AfterProbes
    \/ ConfirmCheck
    \/ ConfirmReturn
    \/ SweepFatal
    \/ Reconcile
    \/ Deliver
    \/ Discord
    \/ EndSweep

\* the event loop resumes run() whenever what it awaits has completed, and
\* every sleep, probe and send completes
SpecLive == Init /\ [][Next]_vars /\ WF_vars(RunStep)

\* the call of check_app_availability(app_id, geo), lines 146-198
CallProber ==
    /\ http_outs # <<>>
    /\ probe_result = <<>>
    /\ probe_result' = <<check_app_availability(http_outs)>>
    /\ UNCHANGED <<storeVars, envVars, active_chats, pc, apps_data, row,
                   probeVars, confirmVars, fanVars, logVars, histVars, http_outs,
                   countVars>>

NextProber == CallProber

SpecProber == InitProber /\ [][NextProber]_vars

\* every probe of a region answers the same in all sweeps
SpecStable == InitStable /\ [][Next]_vars

(***************************************************************************)
(* Vocabulary of the properties                                            *)
(***************************************************************************)
\* the processing of a row has just ended: its locals and observations stand
RowDone == pc = "app" /\ row > 1

\* check_apps is inside the processing of a row, or has just ended it
InRow == pc \in {"probe", "confirm", "confirm_return", "reconcile", "telegram",
                 "discord"} \/ RowDone

\* the record of apps_data that is being, or has just been, processed
CurApp == IF pc = "app" THEN apps_data[row - 1] ELSE apps_data[row]

Range(seq) == {seq[i] : i \in DOMAIN seq}

\* the number of samples of the latest confirmation that equal `expected`
Matching(expected) ==
    Cardinality({i \in DOMAIN samples : samples[i] = expected})

\* a confirmation has just returned: its samples and its log entry stand
ConfirmJustReturned ==
    /\ pc \in {"confirm", "reconcile"}
    /\ check_num = 0
    /\ confirm_log # <<>>
    /\ Len(samples) = CONFIRMATION_CHECKS

LastConfirm == confirm_log[Len(confirm_log)]

\* the status a region resolves to: the confirmed new status if its flip was
\* confirmed in this sweep, the stored status of the app otherwise
Resolved(geo) ==
    IF \E c \in Range(confirmed_changes) : c.geo = geo
    THEN \A c \in Range(confirmed_changes) : c.geo = geo => c.new_status
    ELSE CurApp.is_available

\* the overall verdict: some configured region resolves to available
Verdict == \E geo \in Range(CurApp.geos) : Resolved(geo)

GoneSignals == {"bot was blocked by the user", "chat not found"}

(***************************************************************************)
(* Properties                                                              *)
(***************************************************************************)
\* C1: a confirmation returns true if and only if at least 3 of its 5 probe
\* results equal the expected status.
C1_MajorityOfFive ==
    ConfirmJustReturned =>
        (LastConfirm.result <=> Matching(LastConfirm.expected_status) >= 3)

\* exactly 3 of 5 match and the change is confirmed
C1_Witness ==
    /\ ConfirmJustReturned
    /\ Matching(LastConfirm.expected_status) = 3
    /\ LastConfirm.result

\* C2: the availability of a row with regions is written and a notification
\* is emitted exactly when the recomputed verdict differs from the stored
\* availability.
C2_WriteAndNotifyIffVerdictDiffers ==
    (RowDone /\ CurApp.geos # <<>>) =>
        /\ writes # <<>> <=> Verdict # CurApp.is_available
        /\ events # <<>> <=> Verdict # CurApp.is_available

\* a row written and notified in an earlier sweep (its timestamp cell is set
\* by a successful update_sheet only, in the step that emits the notification)
PersistedAndNotified(app_id) ==
    \E i \in DOMAIN sheet : sheet[i].app_id = app_id /\ sheet[i].last_update = "now"

\* C3: while every region answers the same in all sweeps, an app whose change
\* was persisted and notified is not notified again by a later sweep.
C3_NoRepeatedNotification ==
    [][\A app_id \in AppIds :
          PersistedAndNotified(app_id) =>
              ~(events = <<>> /\ events' # <<>> /\ events'[1].app_id = app_id)]_vars

\* C4: the verdict check_apps computes is true if and only if some configured
\* region resolves to available, and it is the value handed to update_sheet.
C4_VerdictIsOrOfResolved ==
    (InRow /\ events # <<>>) =>
        /\ events[1].final_status <=> Verdict
        /\ writes[1].is_available <=> Verdict
        /\ Range(events[1].available) = {geo \in Range(CurApp.geos) : Resolved(geo)}

\* a verdict of available although every raw probe of the row says unavailable:
\* one flip was confirmed, the other region keeps the stored status
C4_Witness ==
    /\ RowDone
    /\ events # <<>>
    /\ events[1].final_status
    /\ Len(confirm_log) = 2
    /\ \A geo \in Range(CurApp.geos) : ~new_status_by_geo[geo]

\* C5: a change candidate exists for a region if and only if its raw probe
\* differs from the stored availability, and only candidates are confirmed.
C5_CandidateIffRawDiffers ==
    InRow =>
        /\ \A geo \in DOMAIN new_status_by_geo :
              (\E c \in Range(status_changes) : c.geo = geo)
                 <=> new_status_by_geo[geo] # CurApp.is_available
        /\ \A c \in Range(status_changes) :
              /\ c.geo \in DOMAIN new_status_by_geo
              /\ c.old_status = CurApp.is_available
              /\ c.new_status = new_status_by_geo[c.geo]
        /\ \A e \in Range(confirm_log) :
              new_status_by_geo[e.geo] # CurApp.is_available
        /\ pc \in {"confirm", "confirm_return"} =>
              new_status_by_geo[status_changes[ci].geo] # CurApp.is_available
        /\ pc = "probe" =>
              CurApp.is_available = BoolOfCell(sheet[row].is_available)

\* one region agreed with the store and raised nothing, the other was confirmed
C5_Witness ==
    /\ RowDone
    /\ Len(CurApp.geos) = 2
    /\ Len(status_changes) = 1
    /\ Len(confirm_log) = 1
    /\ \E geo \in Range(CurApp.geos) : new_status_by_geo[geo] = CurApp.is_available

\* a step that adds to the active chats: start-up's load, or a /start
RegistrationStep == Startup \/ \E chat_id \in Chats : start_command(chat_id)

\* C6: a row none of whose candidates is confirmed is a no-op: no store write,
\* no notification on any channel, no change of the active chats.
C6_NoConfirmedChangeIsNoOp ==
    /\ [](RowDone /\ confirmed_changes = <<>> =>
             /\ writes = <<>>
             /\ events = <<>>
             /\ sent = NoneSent
             /\ discord_sent = 0)
    /\ [][(InRow /\ confirmed_changes = <<>> /\ confirmed_changes' = <<>>
             /\ ~RegistrationStep) =>
             /\ sheet' = sheet
             /\ active_chats' = active_chats]_vars

\* every candidate of the row was rejected
C6_Witness ==
    /\ RowDone
    /\ confirmed_changes = <<>>
    /\ Len(confirm_log) = 2
    /\ active_chats # {}

\* the scenario's row: X in US and DE, stored unavailable, US answers 200 and
\* DE answers 404
C7_Scenario ==
    /\ RowDone
    /\ CurApp.app_id = "X"
    /\ CurApp.geos = <<"US", "DE">>
    /\ ~CurApp.is_available
    /\ new_status_by_geo["US"]
    /\ ~new_status_by_geo["DE"]

C7_Change == [geo |-> "US", old_status |-> FALSE, new_status |-> TRUE]

\* C7: in the scenario only US raises a candidate; when its confirmation
\* returns true the verdict is available, true is written to the app's row and
\* one notification goes to every channel, listing only US.
C7_EndToEnd ==
    C7_Scenario =>
        /\ status_changes = <<C7_Change>>
        /\ Len(confirm_log) = 1
        /\ confirm_log[1].geo = "US"
        /\ confirm_log[1].expected_status
        /\ confirm_log[1].result =>
              /\ confirmed_changes = <<C7_Change>>
              /\ events = << [app_id |-> "X", final_status |-> TRUE,
                              changes |-> <<C7_Change>>, available |-> <<"US">>] >>
              /\ Len(writes) = 1
              /\ writes[1].row_index = 2
              /\ writes[1].is_available
              /\ writes[1].ok =>
                    /\ sheet[1].app_id = "X"
                    /\ sheet[1].is_available = "true"
                    /\ sheet[1].last_update = "now"
              /\ \A i \in DOMAIN sheet : i # 1 => sheet[i].app_id # "X"
              /\ \A c \in Chats : Len(sent[c]) = IF c \in fan_snapshot THEN 1 ELSE 0
              /\ discord_sent = 1

\* the scenario with the US change confirmed, written and sent to two chats
C7_Witness ==
    /\ C7_Scenario
    /\ confirm_log[1].result
    /\ writes[1].ok
    /\ Cardinality(fan_snapshot) = 2

\* a fan-out has ended
FanOutDone == pc = "discord" \/ (RowDone /\ events # <<>>)

\* C8: a fan-out attempts every chat that was active when it started, once,
\* whatever the outcome of the other attempts; a failed attempt does not leave
\* the sweep, and the webhook is called afterwards.
C8_EveryDestinationAttempted ==
    /\ [](FanOutDone =>
             \A c \in Chats : Len(sent[c]) = IF c \in fan_snapshot THEN 1 ELSE 0)
    /\ []((RowDone /\ events # <<>>) => discord_sent = 1)
    /\ [][pc = "telegram" => pc' \in {"telegram", "discord"}]_vars
    /\ [][pc = "discord" => pc' \in {"discord", "app"}]_vars

\* both chats of the fan-out failed, one as gone and one otherwise, and the
\* webhook was called
C8_Witness ==
    /\ RowDone
    /\ events # <<>>
    /\ discord_sent = 1
    /\ \E c1, c2 \in fan_snapshot :
          /\ sent[c1] = <<"chat not found">>
          /\ sent[c2] = <<"timed out">>

\* C9: after a fan-out, a chat of its snapshot is out of the active set if and
\* only if its delivery failed with a 'gone' signal.
C9_RemovedIffGone ==
    pc = "discord" =>
        \A c \in fan_snapshot :
            c \notin active_chats <=> \E i \in DOMAIN sent[c] : sent[c][i] \in GoneSignals

\* one chat failed as gone and is removed, another failed otherwise and is kept
C9_Witness ==
    /\ pc = "discord"
    /\ \E c1, c2 \in fan_snapshot :
          /\ sent[c1] = <<"bot was blocked by the user">>
          /\ c1 \notin active_chats
          /\ sent[c2] = <<"timed out">>
          /\ c2 \in active_chats

\* C10: a chat removed as gone is not in the active set again unless a /start
\* of that chat came after the removal.
C10_DeregistrationMonotonic == gone_removed \cap active_chats = {}

\* a chat removed as gone whose row is still in the chats sheet, a sweep later
C10_Witness ==
    /\ pc = "probe"
    /\ \E c \in gone_removed : chats_sheet[StrOfInt(c)] > 0


(***************************************************************************)
(* One call of the Prober                                                  *)
(***************************************************************************)
CallReturned == probe_result # <<>>

CallResult == probe_result[1]

\* a request that failed for now: a server error, a timeout, a network error
Transient(o) ==
    \/ o.kind \in {"timeout", "network"}
    \/ o.kind = "response" /\ o.code >= 500

\* C11: of the requests a call makes, one answered 200 ends the call with
\* Available, one answered 404 or any other code below 500 ends it with
\* Unavailable, and no request follows it; a request is followed by another
\* only if it failed with a code from 500 up, a timeout or a network error.
C11_ResponseClassification ==
    CallReturned =>
        /\ CallResult.attempts >= 1
        /\ \A k \in 1..CallResult.attempts :
              LET o == http_outs[k]
              IN  /\ o.kind = "response" /\ o.code = 200 =>
                        /\ CallResult.attempts = k
                        /\ ~CallResult.raised /\ CallResult.value
                  /\ o.kind = "response" /\ o.code # 200 /\ o.code < 500 =>
                        /\ CallResult.attempts = k
                        /\ ~CallResult.raised /\ ~CallResult.value
                  /\ k < CallResult.attempts => Transient(o)

C11_Witness ==
    /\ CallReturned
    /\ http_outs[1] = [kind |-> "response", code |-> 503]
    /\ http_outs[2] = [kind |-> "response", code |-> 403]
    /\ CallResult = [raised |-> FALSE, value |-> FALSE, attempts |-> 2, sleeps |-> 1]

\* C12: a call makes at most three requests, a further one only when all the
\* earlier ones failed for now, sleeps once between two requests and not after
\* the last; when all three failed for now it returns Unavailable; and as long
\* as the requests end in a response, a timeout or a network error the call
\* returns a boolean and raises nothing.
C12_BoundedRetry ==
    CallReturned =>
        /\ CallResult.attempts \in 1..3
        /\ \A k \in 1..(CallResult.attempts - 1) : Transient(http_outs[k])
        /\ CallResult.sleeps = CallResult.attempts - 1
        /\ (\A k \in 1..3 : Transient(http_outs[k])) =>
              CallResult.attempts = 3 /\ ~CallResult.raised /\ ~CallResult.value
        /\ (\A k \in 1..CallResult.attempts :
               http_outs[k].kind \in {"response", "timeout", "network"}) =>
              ~CallResult.raised /\ CallResult.value \in BOOLEAN

C12_Witness ==
    /\ CallReturned
    /\ http_outs[1].kind = "timeout"
    /\ http_outs[2] = [kind |-> "response", code |-> 500]
    /\ http_outs[3].kind = "network"
    /\ CallResult = [raised |-> FALSE, value |-> FALSE, attempts |-> 3, sleeps |-> 2]

(***************************************************************************)
(* Probe volume                                                            *)
(***************************************************************************)
\* the regions of the row whose raw probe differs from the stored status
Flipped ==
    {geo \in DOMAIN new_status_by_geo : new_status_by_geo[geo] # CurApp.is_available}

\* the calls of confirm_status_change made for a region
ConfirmationsOf(geo) ==
    Cardinality({i \in DOMAIN confirm_log : confirm_log[i].geo = geo})

\* C18: a row with n regions of which k raised a flip has called the Prober
\* n + 5k times when its processing ends: every flipped region got one
\* confirmation of exactly 5 probes, each after one interval sleep and none
\* left out once the vote was decided, and the other regions got none.
C18_ProbeVolume ==
    /\ InRow =>
          /\ probe_calls = (gi - 1) + CONFIRMATION_CHECKS * Len(confirm_log) + check_num
          /\ interval_sleeps = probe_calls - (gi - 1)
          /\ pc = "confirm_return" => check_num = CONFIRMATION_CHECKS
    /\ RowDone =>
          /\ probe_calls = Len(CurApp.geos) + 5 * Cardinality(Flipped)
          /\ interval_sleeps = 5 * Cardinality(Flipped)
          /\ \A geo \in Range(CurApp.geos) :
                ConfirmationsOf(geo) = IF geo \in Flipped THEN 1 ELSE 0

\* two regions, one flip, confirmed: seven probes
C18_Witness ==
    /\ RowDone
    /\ Len(CurApp.geos) = 2
    /\ Cardinality(Flipped) = 1
    /\ confirm_log # <<>> /\ confirm_log[1].result
    /\ probe_calls = 7

(***************************************************************************)
(* The apps sheet                                                          *)
(***************************************************************************)
\* the cells of a row that update_sheet never addresses
OtherCells(r) ==
    [app_id |-> r.app_id, app_name |-> r.app_name, geos |-> r.geos,
     custom |-> r.custom]

\* C13: the apps sheet changes only in the step of check_apps that reconciles
\* an app, only in the row of that app (the k-th app read is sheet row k + 1,
\* the header being row 1) and there only in the availability and timestamp
\* cells; every update_sheet call, failed or not, addresses that row.
C13_WriteFrame ==
    [][/\ Len(sheet') = Len(sheet)
       /\ \A i \in DOMAIN sheet :
             sheet'[i] # sheet[i] =>
                /\ pc = "reconcile" /\ i = row
                /\ apps_data[row].app_id = sheet[i].app_id
                /\ OtherCells(sheet'[i]) = OtherCells(sheet[i])
                /\ writes' # <<>> /\ writes'[1].ok /\ writes'[1].row_index = i + 1
       /\ writes' # writes /\ writes' # <<>> =>
             pc = "reconcile" /\ writes'[1].row_index = row + 1]_vars

\* the second app was written, the first was not
C13_Witness ==
    /\ writes # <<>> /\ writes[1].ok /\ writes[1].row_index = 3
    /\ sheet[2].last_update = "now"
    /\ sheet[1].last_update = "t0"

\* C14: an update_sheet call that fails is followed by the notifications of
\* the same app, no step of reconciling or notifying leads to the backoff
\* sleep, and the sweep goes on to probe the next app read; a sweep whose
\* read_sheet_data failed has no app to process, probes and writes nothing and
\* ends in the interval sleep.
C14_StoreFailureContained ==
    [][/\ (writes' # writes /\ writes' # <<>> /\ ~writes'[1].ok) =>
             /\ pc' \in {"telegram", "discord"}
             /\ row' = row /\ apps_data' = apps_data /\ sheet' = sheet
       /\ pc \in {"reconcile", "telegram", "discord"} =>
             pc' \in {"reconcile", "telegram", "discord", "app"}
       /\ (RowDone /\ row <= Len(apps_data) /\ pc' # pc) =>
             pc' = "probe" /\ row' = row /\ apps_data' = apps_data
       /\ (pc = "app" /\ apps_data = <<>> /\ pc' # pc) =>
             pc' = "idle" /\ probe_calls' = 0 /\ sheet' = sheet /\ writes' = <<>>]_vars

\* the write of the first app failed and the second app is next
C14_Witness ==
    /\ RowDone /\ row = 2 /\ row <= Len(apps_data)
    /\ writes # <<>> /\ ~writes[1].ok

(***************************************************************************)
(* Registration                                                            *)
(***************************************************************************)
\* the rows of the chats sheet that hold the id of a chat
RowsOf(chat_id) == chats_sheet[StrOfInt(chat_id)]

\* C16: the chats sheet, which starts with no id twice, never holds two rows
\* for one chat; a /start leaves its chat in the active chats; and a /start of
\* a chat that is active and has its row changes neither the active chats nor
\* the chats sheet.
C16_RegistrationIdempotent ==
    /\ [](\A chat_id \in Chats : RowsOf(chat_id) <= 1)
    /\ [][\A chat_id \in Chats :
             start_command(chat_id) =>
                /\ chat_id \in active_chats'
                /\ (chat_id \in active_chats /\ RowsOf(chat_id) = 1) =>
                      active_chats' = active_chats /\ chats_sheet' = chats_sheet]_vars

\* every chat sent /start before the chats sheet was loaded, and has its row
C16_Witness ==
    /\ pc = "init"
    /\ active_chats = Chats
    /\ \A chat_id \in Chats : RowsOf(chat_id) = 1

(***************************************************************************)
(* The scheduler                                                           *)
(***************************************************************************)
\* Idle is the CHECK_INTERVAL sleep, Backoff the 60 s sleep after a failed
\* sweep, Sweeping the run of check_apps
SchedulerState ==
    CASE pc \in {"init", "loaded"} -> "Startup"
      [] pc = "idle"               -> "Idle"
      [] pc = "backoff"            -> "Backoff"
      [] pc \in {"app", "probe", "confirm", "confirm_return", "reconcile",
                 "telegram", "discord"} -> "Sweeping"
      [] OTHER                     -> "Terminated"

\* the for loop of check_apps is exhausted: the sweep completes
SweepCompletes == pc = "app" /\ row > Len(apps_data)

\* C15: a sweep that does not complete never terminates the scheduler but
\* leaves it in Backoff; from Backoff the scheduler returns to Idle; and after
\* every failed sweep, however many failed before, a further sweep starts.
C15_BackoffReturnsToIdle ==
    /\ [](SchedulerState # "Terminated")
    /\ [][(SchedulerState = "Sweeping" /\ SchedulerState' # "Sweeping"
           /\ ~SweepCompletes) => SchedulerState' = "Backoff"]_vars
    /\ [][SchedulerState = "Backoff" => SchedulerState' \in {"Backoff", "Idle"}]_vars
    /\ (SchedulerState = "Backoff") ~> (SchedulerState = "Sweeping")

\* C15 as the code has it: a sweep that does not complete never terminates
\* the scheduler but leaves it in Backoff; when the backoff sleep ends the
\* scheduler starts a sweep at once, without the interval sleep; so after
\* every failed sweep, however many failed before, a further sweep starts, and
\* sweeps start again and again for ever.
C15_FailedSweepIsRetried ==
    /\ [](SchedulerState # "Terminated")
    /\ [][(SchedulerState = "Sweeping" /\ SchedulerState' # "Sweeping"
           /\ ~SweepCompletes) => SchedulerState' = "Backoff"]_vars
    /\ [][(SchedulerState = "Backoff" /\ SchedulerState' # "Backoff") =>
             pc' = "app" /\ row' = 1]_vars
    /\ (SchedulerState = "Backoff") ~> (SchedulerState = "Sweeping")
    /\ []<>(pc = "app" /\ row = 1)

\* a sweep failed after the first app had been written
C15_Witness ==
    /\ SchedulerState = "Backoff"
    /\ sheet[1].last_update = "now"

\* a sweep starts: check_apps is entered
SweepStarts == SchedulerState # "Sweeping" /\ SchedulerState' = "Sweeping"

\* C17: the scheduler moves Idle -> Sweeping -> Idle, and Sweeping -> Backoff
\* -> Idle after an exception; a sweep starts only from Idle (start-up counted
\* with it) and never directly from Backoff.
C17_SweepsStartFromIdleOnly ==
    [][/\ SweepStarts => SchedulerState \in {"Startup", "Idle"}
       /\ SchedulerState = "Sweeping" =>
             SchedulerState' \in {"Sweeping", "Idle", "Backoff"}
       /\ SchedulerState = "Backoff" => SchedulerState' \in {"Backoff", "Idle"}]_vars

\* C17 as the code has it: one sweep at a time, started at the first row
\* right after start-up, from Idle, or from Backoff when its sleep ends; a
\* sweep in progress is not restarted; it ends in Idle exactly by completing
\* and in Backoff exactly by failing; Idle and Backoff are left only by
\* starting a sweep, so the interval sleep lies between a completed sweep and
\* the next, and only the backoff sleep between a failed sweep and the next.
C17_SchedulerStateMachine ==
    [][/\ SweepStarts =>
             /\ SchedulerState \in {"Startup", "Idle", "Backoff"}
             /\ pc' = "app" /\ row' = 1
       /\ SchedulerState = "Startup" => SchedulerState' \in {"Startup", "Sweeping"}
       /\ SchedulerState = "Idle" => SchedulerState' \in {"Idle", "Sweeping"}
       /\ SchedulerState = "Backoff" => SchedulerState' \in {"Backoff", "Sweeping"}
       /\ SchedulerState = "Sweeping" =>
             /\ SchedulerState' \in {"Sweeping", "Idle", "Backoff"}
             /\ SchedulerState' = "Sweeping" =>
                   apps_data' = apps_data /\ row' \in {row, row + 1}
             /\ SchedulerState' = "Idle" <=> (SweepCompletes /\ pc' # pc)
             /\ SchedulerState' = "Backoff" => ~SweepCompletes]_vars

\* the backoff sleep after a failed sweep, from which the next sweep starts
C17_Witness ==
    /\ SchedulerState = "Backoff"
    /\ ENABLED BeginSweep
    /\ ~ENABLED EndSweep

(***************************************************************************)
(* Apps without regions                                                    *)
(***************************************************************************)
\* the row of the apps sheet of the app that is being, or has just been,
\* processed
CurRow == sheet[IF pc = "app" THEN row - 1 ELSE row]

\* C20: an app whose region list in the apps sheet is empty is skipped: while
\* and after it is processed no probe was issued for it, no candidate raised,
\* no write made and no notification emitted.
C20_EmptyRegionListIsSkipped ==
    (InRow /\ CurRow.geos = "") =>
        /\ probe_calls = 0
        /\ status_changes = <<>>
        /\ writes = <<>>
        /\ events = <<>>

(***************************************************************************)
(* Candidates that are not confirmed                                       *)
(***************************************************************************)
\* confirm_status_change returns False for a candidate
Rejection ==
    /\ pc = "confirm_return"
    /\ Len(confirm_log') = Len(confirm_log) + 1
    /\ ~confirm_log'[Len(confirm_log')].result

\* C19: a candidate gets one confirmation in a sweep, confirmed or not; the
\* return of False changes neither the sheets, nor the active chats, nor the
\* confirmed changes; every sweep starts with no candidate and no confirmed
\* change and with the statuses the apps sheet holds, so that in it a region
\* raises a candidate exactly when its fresh probe differs from the stored
\* status, and the candidate is confirmed whenever at least 3 of its 5 samples
\* match, whatever earlier sweeps returned for it.
C19_RejectionLeavesNoState ==
    /\ [](InRow => \A geo \in Range(CurApp.geos) : ConfirmationsOf(geo) <= 1)
    /\ [][Rejection =>
             /\ sheet' = sheet /\ chats_sheet' = chats_sheet
             /\ active_chats' = active_chats
             /\ confirmed_changes' = confirmed_changes
             /\ writes' = writes /\ events' = events]_vars
    /\ [][SweepStarts =>
             /\ status_changes' = <<>> /\ confirmed_changes' = <<>>
             /\ new_status_by_geo' = <<>> /\ confirm_log' = <<>>
             /\ \A i \in DOMAIN apps_data' :
                   /\ apps_data'[i].app_id = sheet[i].app_id
                   /\ apps_data'[i].is_available = BoolOfCell(sheet[i].is_available)]_vars
    /\ [](RowDone =>
             /\ {c.geo : c \in Range(status_changes)} = Flipped
             /\ \A c \in Range(status_changes) : c.old_status = CurApp.is_available)
    /\ [](ConfirmJustReturned /\ Matching(LastConfirm.expected_status) >= 3 =>
             \E c \in Range(confirmed_changes) :
                c.geo = LastConfirm.geo /\ c.new_status = LastConfirm.expected_status)

\* in a sweep after one that wrote the first app, a candidate of that app was
\* not confirmed, and the row ends with the sheet as that earlier sweep left it
C19_Witness ==
    /\ RowDone /\ row = 2
    /\ confirm_log # <<>> /\ ~confirm_log[1].result
    /\ confirmed_changes = <<>>
    /\ sheet[1].last_update = "now"

(***************************************************************************)
(* Registration during a fan-out                                           *)
(***************************************************************************)
\* C21: a chat whose delivery failed as gone in a fan-out and whose /start was
\* handled later in that fan-out, while other deliveries were pending, is in
\* the active chats when the fan-out ends.
C21_RegistrationSurvivesRemoval ==
    pc = "discord" => restarted \subseteq active_chats

(***************************************************************************)
(* Notification and persistence                                            *)
(***************************************************************************)
\* a notification of the row has gone out: a send_message was attempted or the
\* webhook was called
NotificationSent ==
    discord_sent > 0 \/ \E c \in Chats : sent[c] # <<>>

\* C22: when a notification of an app goes out, the update_sheet call of its
\* row was made before in the sweep and succeeded, and the availability cell
\* of the row holds the verdict the notification announces.
C22_NotifiedOnlyIfPersisted ==
    (InRow /\ NotificationSent) =>
        /\ events # <<>> /\ writes # <<>>
        /\ writes[1].ok
        /\ BoolOfCell(CurRow.is_available) = events[1].final_status
=============================================================================
